---- MODULE Spec2Model ----
(***************************************************************************)
(* Model of the ebook-store front end: the Stacks service module           *)
(* (frontend/services/stacks.ts), the My Books page                        *)
(* (frontend/pages/my-books.tsx) and the upload page                       *)
(* (frontend/pages/upload.tsx).                                            *)
(*                                                                         *)
(* One behaviour follows one consumer of the service module, named by the  *)
(* variable page: a caller of getAllEbooks ("index"), a caller of          *)
(* getEbooksByAuthor ("author"), the My Books page ("my-books"), the       *)
(* upload page ("upload"), a caller of one read-access                     *)
(* function ("reads"), a caller of one write-access function ("writes")    *)
(* and a caller of the session and utility functions ("utils").  The remote contract is the environment: every read-only    *)
(* request is answered by a reply drawn from a small set, or fails.        *)
(***************************************************************************)
EXTENDS Integers, Sequences, FiniteSets, TLC

\* ------------------------------------------------------------------------
\* Bounds
\* ------------------------------------------------------------------------
MaxCount == 2      \* largest value get-ebook-count answers
MaxIds == 2        \* longest id list an index lookup answers
MaxCalls == 2      \* most contract-call requests opened in one behaviour

\* ------------------------------------------------------------------------
\* Values
\* ------------------------------------------------------------------------
Null == [tag |-> "null"]

Pages == {"index", "author", "my-books", "upload", "reads", "writes", "utils"}

\* The two account identifiers of the stored profile (stxAddress.mainnet and
\* stxAddress.testnet); each also occurs as the author of listings.
Addresses == {"SP1", "ST1"}

EbookIds == 1..MaxCount

\* What cvToValue yields for the listing tuple of a get-ebook answer.  Only
\* the fields the pages branch on are kept.
ListingValues == [author : Addresses, active : BOOLEAN]

RECURSIVE DistinctSeqs(_, _)
\* The sequences of at most n distinct elements of S.
DistinctSeqs(S, n) ==
  IF n = 0 THEN {<<>>}
  ELSE LET shorter == DistinctSeqs(S, n - 1)
       IN shorter \cup UNION {{Append(s, x) : x \in S \ {s[k] : k \in DOMAIN s}} :
                                s \in {t \in shorter : Len(t) = n - 1}}

\* Id lists get-buyer-ebooks answers: a buyer's listings, in any order.
IdLists == DistinctSeqs(1..MaxIds, MaxIds)

\* Id lists get-author-ebooks answers: empty, or the first id alone, which is
\* incomplete or wrong for most listing tables.
AuthorIdLists == {<<>>, <<1>>}

\* A reply of callReadOnlyFunction: ok = FALSE is a rejected promise.
Failure == [ok |-> FALSE, value |-> Null]
Success(v) == [ok |-> TRUE, value |-> v]

\* Answers of get-ebook for an id some listing has.
ListingReplies == {Failure} \cup {Success(v) : v \in ListingValues}
\* Answers of get-ebook for any id: none (null) for an id no listing has.
GetEbookReplies == ListingReplies \cup {Success(Null)}
CountReplies == {Failure} \cup {Success(n) : n \in 0..MaxCount}
BuyerIdsReplies == {Failure} \cup {Success(l) : l \in IdLists}
AuthorIdsReplies == {Failure} \cup {Success(l) : l \in AuthorIdLists}
BoolReplies == {Failure, Success(TRUE), Success(FALSE)}

\* The outcome of calling a function: a returned value or a thrown error.
Return(v) == [threw |-> FALSE, value |-> v]
Throw == [threw |-> TRUE, value |-> Null]

VARIABLES
  page,          \* the consumer this behaviour follows
  hasWindow,     \* typeof window !== "undefined"
  signedIn,      \* userSession.isUserSignedIn()
  networkEnv,    \* process.env.NEXT_PUBLIC_NETWORK
  reqLog,        \* read-only requests issued so far, with status and reply
  ga_pc,         \* getAllEbooks: "idle", "count", "ebook", "done"
  ga_count,      \* getAllEbooks: const count
  ga_i,          \* getAllEbooks: loop variable i
  ga_ebooks,     \* getAllEbooks: const ebooks
  ga_result,     \* getAllEbooks: the outcome handed to the caller
  ba_pc,         \* getEbooksByAuthor: "idle", "ids", "ebook", "done"
  ba_ebookIds,   \* getEbooksByAuthor: const ebookIds
  ba_k,          \* getEbooksByAuthor: position of the for-of loop in ebookIds
  ba_ebooks,     \* getEbooksByAuthor: const ebooks
  ba_result,     \* getEbooksByAuthor: the outcome handed to the caller
  mb_pc,         \* My Books: "unmounted", "count", "author", "scan", "buyer",
                 \*   "purchased", "done"
  mb_isLoading,       \* My Books: useState isLoading
  walletConnected,    \* My Books: useState walletConnected
  userAddress,        \* My Books: useState userAddress
  publishedEbooks,    \* My Books: useState publishedEbooks
  purchasedEbooks,    \* My Books: useState purchasedEbooks
  activeTab,          \* My Books: useState activeTab
  totalCount,         \* loadMyBooks: const totalCount
  authorEbookIds,     \* loadMyBooks: const authorEbookIds
  mb_i,               \* loadMyBooks: loop variable i
  allAuthorEbooks,    \* loadMyBooks: const allAuthorEbooks
  buyerEbookIds,      \* loadMyBooks: const buyerEbookIds
  purchasedPromises,  \* loadMyBooks: const purchasedPromises
  rd_pc,         \* caller of a read-access function: "idle", "awaiting", "done"
  rd_fn,         \* the read-access function called
  rd_result,     \* the outcome handed to the caller
  calls,         \* contract-call requests opened (openContractCall)
  wr_invoked,    \* caller of write-access functions: the invocations made
  wr_finished,   \* the caller's onFinish invocations, with the data passed
  wr_cancelled,  \* the caller's onCancel invocations
  wr_failed,     \* an error was thrown inside a wallet callback
  up_pc,         \* upload page: handleSubmit is "idle" or awaits the "digest"
  up_isLoading,  \* upload page: useState isLoading
  error,         \* upload page: useState error
  txId,          \* upload page: useState txId
  title,         \* upload page: useState title
  description,   \* upload page: useState description
  price,         \* upload page: useState price
  ipfsCid,       \* upload page: useState ipfsCid
  ut_fn,         \* caller of session and utility functions: the function called last
  ut_arg,        \* its argument
  ut_result      \* the value it returned

envVars == <<page, hasWindow, signedIn, networkEnv>>

gaVars == <<ga_pc, ga_count, ga_i, ga_ebooks, ga_result>>

mbVars == <<mb_pc, mb_isLoading, walletConnected, userAddress, publishedEbooks,
            purchasedEbooks, activeTab, totalCount, authorEbookIds, mb_i, allAuthorEbooks,
            buyerEbookIds, purchasedPromises>>

rdVars == <<rd_pc, rd_fn, rd_result>>

wrVars == <<wr_invoked, wr_finished, wr_cancelled, wr_failed>>

formVars == <<title, description, price, ipfsCid>>

upVars == <<up_pc, up_isLoading, error, txId, formVars>>

utVars == <<ut_fn, ut_arg, ut_result>>

baVars == <<ba_pc, ba_ebookIds, ba_k, ba_ebooks, ba_result>>

vars == <<envVars, reqLog, gaVars, baVars, mbVars, rdVars, calls, wrVars, upVars, utVars>>

\* ------------------------------------------------------------------------
\* Requests (callReadOnlyFunction)
\* ------------------------------------------------------------------------
Request(fn, arg) == [functionName |-> fn, arg |-> arg, status |-> "pending", reply |-> Failure]

Issue(log, fn, arg) == Append(log, Request(fn, arg))

\* Settle that issues the request again when it failed.
Settle_Reissue(log, k, reply) ==
  LET settled == [log EXCEPT ![k] = [@ EXCEPT !.status = IF reply.ok THEN "ok" ELSE "failed",
                                              !.reply = reply]]
  IN IF reply.ok THEN settled ELSE Issue(settled, log[k].functionName, log[k].arg)

\* Request k of the log settles with reply.
Settle(log, k, reply) ==
  [log EXCEPT ![k] = [@ EXCEPT !.status = IF reply.ok THEN "ok" ELSE "failed",
                                !.reply = reply]]

PendingSet(log) == {k \in 1..Len(log) : log[k].status = "pending"}

\* ------------------------------------------------------------------------
\* Read-access layer
\* ------------------------------------------------------------------------
\* getEbook that lets the error of the request escape.
getEbook_Rethrow(reply) == IF reply.ok THEN Return(reply.value) ELSE Throw

\* getEbook: the value of the reply, null when the request failed.
getEbook(reply) == IF reply.ok THEN Return(reply.value) ELSE Return(Null)

\* getEbookCount: Number(value), 0 when the request failed.
getEbookCount(reply) == IF reply.ok THEN Return(reply.value) ELSE Return(0)

\* ------------------------------------------------------------------------
\* getAllEbooks
\* ------------------------------------------------------------------------
\* AllEbook with the id counted from 0.
AllEbook_ZeroBased(i, ebook) == [id |-> i - 1, author |-> ebook.author, active |-> ebook.active]

\* The Ebook pushed by getAllEbooks for listing i.
AllEbook(i, ebook) == [id |-> i, author |-> ebook.author, active |-> ebook.active]

\* GetAllPush without the test of ebook.active.
GetAllPush_NoActiveTest(ebooks, i, ebook) ==
  IF ebook # Null THEN Append(ebooks, AllEbook(i, ebook)) ELSE ebooks

\* if (ebook) { if (ebook.active) { ebooks.push(...) } }
GetAllPush(ebooks, i, ebook) ==
  IF ebook # Null /\ ebook.active THEN Append(ebooks, AllEbook(i, ebook)) ELSE ebooks

\* GetAllLoop with the loop condition i <= count + 1.
GetAllLoop_OneMore(log, count, i, ebooks) ==
  IF i <= count + 1
  THEN /\ reqLog' = Issue(log, "get-ebook", i)
       /\ ga_pc' = "ebook"
       /\ ga_i' = i
       /\ ga_ebooks' = ebooks
       /\ ga_result' = ga_result
  ELSE /\ reqLog' = log
       /\ ga_pc' = "done"
       /\ ga_i' = i
       /\ ga_ebooks' = ebooks
       /\ ga_result' = Return(ebooks)

\* The head of the for loop with loop variable i: either the next getEbook(i)
\* is awaited or the function returns ebooks.
GetAllLoop(log, count, i, ebooks) ==
  IF i <= count
  THEN /\ reqLog' = Issue(log, "get-ebook", i)
       /\ ga_pc' = "ebook"
       /\ ga_i' = i
       /\ ga_ebooks' = ebooks
       /\ ga_result' = ga_result
  ELSE /\ reqLog' = log
       /\ ga_pc' = "done"
       /\ ga_i' = i
       /\ ga_ebooks' = ebooks
       /\ ga_result' = Return(ebooks)

\* The catch block of getAllEbooks.
GetAllCatch(log) ==
  /\ reqLog' = log
  /\ ga_pc' = "done"
  /\ ga_result' = Return(<<>>)
  /\ UNCHANGED <<ga_i, ga_ebooks>>

\* getAllEbooks is called: up to the first await.
GetAllCall ==
  /\ page = "index"
  /\ ga_pc = "idle"
  /\ reqLog' = Issue(reqLog, "get-ebook-count", 0)
  /\ ga_pc' = "count"
  /\ UNCHANGED <<baVars, utVars, envVars, rdVars, calls, wrVars, upVars, mbVars, ga_count, ga_i, ga_ebooks, ga_result>>

\* await getEbookCount() settles: up to the next await or the return.
GetAllCount ==
  /\ page = "index"
  /\ ga_pc = "count"
  /\ \E reply \in CountReplies :
       LET log == Settle(reqLog, Len(reqLog), reply)
           count == getEbookCount(reply)
       IN IF count.threw
          THEN GetAllCatch(log) /\ UNCHANGED ga_count
          ELSE ga_count' = count.value /\ GetAllLoop(log, count.value, 1, <<>>)
  /\ UNCHANGED <<baVars, utVars, envVars, rdVars, calls, wrVars, upVars, mbVars>>

\* await getEbook(i) settles: the loop body, i++, and the loop head again.
GetAllEbook ==
  /\ page = "index"
  /\ ga_pc = "ebook"
  /\ \E reply \in ListingReplies :
       LET log == Settle(reqLog, Len(reqLog), reply)
           ebook == getEbook(reply)
       IN IF ebook.threw
          THEN GetAllCatch(log)
          ELSE GetAllLoop(log, ga_count, ga_i + 1, GetAllPush(ga_ebooks, ga_i, ebook.value))
  /\ UNCHANGED <<baVars, utVars, envVars, rdVars, calls, wrVars, upVars, mbVars, ga_count>>

\* ------------------------------------------------------------------------
\* Network selector and session holder
\* ------------------------------------------------------------------------
NetworkEnvs == {"unset", "mainnet", "testnet", "devnet"}

\* The session states a page is followed under: only the pages read the
\* session holder.
PageSignedIn(p) == IF p \in {"my-books", "upload", "utils"} THEN BOOLEAN ELSE {TRUE}

\* The pages run their handlers and effects in a browser; the functions of
\* the service module are also called where there is no window.
PageHasWindow(p) == IF p = "utils" THEN BOOLEAN ELSE {TRUE}

\* The configurations a page is followed under.  The My Books page reads the
\* configuration only through the address it selects, and the listings it is
\* answered have either address as author, so it is followed under one
\* configuration; the callers of the compositions under one for each address.
PageNetworkEnvs(p) ==
  CASE p = "my-books" -> {"unset"}
    [] p \in {"index", "author"} -> {"unset", "testnet"}
    [] OTHER -> NetworkEnvs

\* process.env.NEXT_PUBLIC_NETWORK || "mainnet"
NetworkOrDefault == IF networkEnv = "unset" THEN "mainnet" ELSE networkEnv

\* getNetwork: the descriptor the requests and transactions are sent to.
getNetwork ==
  CASE NetworkOrDefault = "mainnet" -> "StacksMainnet"
    [] NetworkOrDefault = "testnet" -> "StacksTestnet"
    [] OTHER -> "StacksDevnet"

\* userData.profile.stxAddress of the stored profile.
StxAddress == [mainnet |-> "SP1", testnet |-> "ST1"]

NullAddress == "null"

\* What ut_arg and ut_result hold before any call.
NoValue == "none"

isSignedIn == IF ~hasWindow THEN FALSE ELSE signedIn

\* getUserAddress that selects the testnet address only for "testnet".
getUserAddress_TestnetByName ==
  IF ~isSignedIn THEN NullAddress
  ELSE IF NetworkOrDefault = "testnet" THEN StxAddress.testnet ELSE StxAddress.mainnet

getUserAddress ==
  IF ~isSignedIn THEN NullAddress
  ELSE IF NetworkOrDefault = "mainnet" THEN StxAddress.mainnet ELSE StxAddress.testnet

\* A caller asks for the address of the user.
GetUserAddressCall ==
  /\ page = "utils"
  /\ ut_fn' = "getUserAddress"
  /\ ut_arg' = ut_arg
  /\ ut_result' = getUserAddress
  /\ UNCHANGED <<baVars, envVars, reqLog, gaVars, mbVars, rdVars, calls, wrVars, upVars>>

\* ------------------------------------------------------------------------
\* Read-access layer: index lookups
\* ------------------------------------------------------------------------
\* getAuthorEbooks: ids || [], [] when the request failed.
getAuthorEbooks(reply) == IF reply.ok THEN Return(reply.value) ELSE Return(<<>>)

\* getBuyerEbooks: ids || [], [] when the request failed.
getBuyerEbooks(reply) == IF reply.ok THEN Return(reply.value) ELSE Return(<<>>)

\* Id lists get-author-ebooks answers to getEbooksByAuthor: an author's
\* listings, in any order.
ByAuthorIdsReplies == {Failure} \cup {Success(l) : l \in IdLists}

\* ------------------------------------------------------------------------
\* getEbooksByAuthor
\* ------------------------------------------------------------------------
\* The Ebook pushed by getEbooksByAuthor for id.
ByAuthorEbook(id, ebook) == [id |-> id, author |-> ebook.author, active |-> ebook.active]

\* if (ebook) { ebooks.push(...) }
ByAuthorPush(ebooks, id, ebook) ==
  IF ebook # Null THEN Append(ebooks, ByAuthorEbook(id, ebook)) ELSE ebooks

\* The head of the for-of loop at position k of ebookIds: either the next
\* getEbook(id) is awaited or the function returns ebooks.
ByAuthorLoop(log, ids, k, ebooks) ==
  /\ ba_k' = k
  /\ ba_ebooks' = ebooks
  /\ IF k <= Len(ids)
     THEN /\ reqLog' = Issue(log, "get-ebook", ids[k])
          /\ ba_pc' = "ebook"
          /\ ba_result' = ba_result
     ELSE /\ reqLog' = log
          /\ ba_pc' = "done"
          /\ ba_result' = Return(ebooks)

\* The catch block of getEbooksByAuthor.
ByAuthorCatch(log) ==
  /\ reqLog' = log
  /\ ba_pc' = "done"
  /\ ba_result' = Return(<<>>)
  /\ UNCHANGED <<ba_k, ba_ebooks>>

\* getEbooksByAuthor is called: up to the first await.
GetByAuthorCall ==
  /\ page = "author"
  /\ ba_pc = "idle"
  /\ reqLog' = Issue(reqLog, "get-author-ebooks", 0)
  /\ ba_pc' = "ids"
  /\ UNCHANGED <<utVars, envVars, gaVars, mbVars, rdVars, calls, wrVars, upVars,
                 ba_ebookIds, ba_k, ba_ebooks, ba_result>>

\* await getAuthorEbooks(authorAddress) settles; the loop starts.
GetByAuthorIds ==
  /\ page = "author"
  /\ ba_pc = "ids"
  /\ \E reply \in ByAuthorIdsReplies :
       LET log == Settle(reqLog, Len(reqLog), reply)
           ids == getAuthorEbooks(reply)
       IN IF ids.threw
          THEN ByAuthorCatch(log) /\ UNCHANGED ba_ebookIds
          ELSE ba_ebookIds' = ids.value /\ ByAuthorLoop(log, ids.value, 1, <<>>)
  /\ UNCHANGED <<utVars, envVars, gaVars, mbVars, rdVars, calls, wrVars, upVars>>

\* await getEbook(id) settles: the loop body and the loop head again.
GetByAuthorEbook ==
  /\ page = "author"
  /\ ba_pc = "ebook"
  /\ \E reply \in GetEbookReplies :
       LET log == Settle(reqLog, Len(reqLog), reply)
           ebook == getEbook(reply)
       IN IF ebook.threw
          THEN ByAuthorCatch(log)
          ELSE ByAuthorLoop(log, ba_ebookIds, ba_k + 1,
                            ByAuthorPush(ba_ebooks, ba_ebookIds[ba_k], ebook.value))
  /\ UNCHANGED <<utVars, envVars, gaVars, mbVars, rdVars, calls, wrVars, upVars, ba_ebookIds>>

\* ------------------------------------------------------------------------
\* My Books page (the version with the full scan)
\* ------------------------------------------------------------------------
\* The Ebook built by loadMyBooks; active: ebook.active !== false.
MyEbook(id, ebook) == [id |-> id, author |-> ebook.author, active |-> (ebook.active # FALSE)]

\* ScanPush that trusts the author index: the listing is pushed only when the
\* id list of getAuthorEbooks has its id.
ScanPush_IndexOnly(all, i, ebook, address) ==
  IF ebook # Null /\ (\E k \in 1..Len(authorEbookIds) : authorEbookIds[k] = i)
  THEN Append(all, MyEbook(i, ebook)) ELSE all

\* if (ebook && ebook.author === address) { allAuthorEbooks.push(...) }
ScanPush(all, i, ebook, address) ==
  IF ebook # Null /\ ebook.author = address THEN Append(all, MyEbook(i, ebook)) ELSE all

\* PurchasedValue that drops a deactivated listing.
PurchasedValue_ActiveOnly(id, ebook) ==
  IF ebook # Null /\ ebook.active THEN MyEbook(id, ebook) ELSE Null

\* The value an async callback of buyerEbookIds.map resolves to.
PurchasedValue(id, ebook) == IF ebook # Null THEN MyEbook(id, ebook) ELSE Null

\* FilterBoolean over the values from the last promise to the first.
FilterBoolean_Reverse(promises) ==
  SelectSeq([k \in 1..Len(promises) |-> promises[Len(promises) + 1 - k].value],
            LAMBDA v : v # Null)

\* (await Promise.all(purchasedPromises)).filter(Boolean)
FilterBoolean(promises) == SelectSeq([k \in 1..Len(promises) |-> promises[k].value], LAMBDA v : v # Null)

\* A promise of purchasedPromises: the request it awaits, and its value once
\* settled.
PendingPromise(req) == [req |-> req, settled |-> FALSE, value |-> Null]

RECURSIVE IssueAll(_, _, _)
\* buyerEbookIds.map(async (id) => ...): every callback runs up to its await,
\* so the get-ebook requests are issued in list order.
IssueAll(log, ids, k) ==
  IF k > Len(ids) THEN log ELSE IssueAll(Issue(log, "get-ebook", ids[k]), ids, k + 1)

\* MbFinally without setIsLoading(false).
MbFinally_StillLoading(log) ==
  /\ reqLog' = log
  /\ mb_pc' = "done"
  /\ mb_isLoading' = mb_isLoading

\* catch (if thrown) and finally of loadMyBooks.
MbFinally(log) ==
  /\ reqLog' = log
  /\ mb_pc' = "done"
  /\ mb_isLoading' = FALSE

\* MbCollect that goes on as soon as one promise is settled.
MbCollect_Any(log, promises) ==
  IF promises = <<>> \/ \E k \in 1..Len(promises) : promises[k].settled
  THEN /\ purchasedEbooks' = FilterBoolean(promises)
       /\ MbFinally(log)
  ELSE /\ purchasedEbooks' = purchasedEbooks
       /\ reqLog' = log
       /\ mb_pc' = "purchased"
       /\ mb_isLoading' = mb_isLoading

\* The tail of loadMyBooks once every promise of purchasedPromises is settled.
MbCollect(log, promises) ==
  IF \A k \in 1..Len(promises) : promises[k].settled
  THEN /\ purchasedEbooks' = FilterBoolean(promises)
       /\ MbFinally(log)
  ELSE /\ purchasedEbooks' = purchasedEbooks
       /\ reqLog' = log
       /\ mb_pc' = "purchased"
       /\ mb_isLoading' = mb_isLoading

\* The head of the scan loop with loop variable i: either the next getEbook(i)
\* is awaited, or the published list is set and getBuyerEbooks is awaited.
MbScanLoop(log, count, i, all) ==
  /\ mb_i' = i
  /\ allAuthorEbooks' = all
  /\ mb_isLoading' = mb_isLoading
  /\ IF i <= count
     THEN /\ reqLog' = Issue(log, "get-ebook", i)
          /\ mb_pc' = "scan"
          /\ publishedEbooks' = publishedEbooks
     ELSE /\ reqLog' = Issue(log, "get-buyer-ebooks", 0)
          /\ mb_pc' = "buyer"
          /\ publishedEbooks' = all

\* useEffect on mount, with the call of loadMyBooks up to its first await.
MyBooksMount ==
  /\ page = "my-books"
  /\ mb_pc = "unmounted"
  /\ hasWindow
  /\ walletConnected' = isSignedIn
  /\ IF isSignedIn
     THEN /\ userAddress' = getUserAddress
          /\ IF getUserAddress = NullAddress
             THEN /\ mb_isLoading' = FALSE
                  /\ mb_pc' = "done"
                  /\ reqLog' = reqLog
             ELSE /\ mb_isLoading' = TRUE
                  /\ mb_pc' = "count"
                  /\ reqLog' = Issue(reqLog, "get-ebook-count", 0)
     ELSE /\ userAddress' = userAddress
          /\ mb_isLoading' = FALSE
          /\ mb_pc' = "done"
          /\ reqLog' = reqLog
  /\ UNCHANGED <<baVars, utVars, envVars, rdVars, calls, wrVars, upVars, gaVars, activeTab, publishedEbooks, purchasedEbooks, totalCount,
                 authorEbookIds, mb_i, allAuthorEbooks, buyerEbookIds, purchasedPromises>>

\* await getEbookCount() settles.
LoadCount ==
  /\ page = "my-books"
  /\ mb_pc = "count"
  /\ \E reply \in CountReplies :
       LET log == Settle(reqLog, Len(reqLog), reply)
           count == getEbookCount(reply)
       IN IF count.threw
          THEN MbFinally(log) /\ UNCHANGED totalCount
          ELSE /\ totalCount' = count.value
               /\ reqLog' = Issue(log, "get-author-ebooks", 0)
               /\ mb_pc' = "author"
               /\ mb_isLoading' = mb_isLoading
  /\ UNCHANGED <<baVars, utVars, envVars, rdVars, calls, wrVars, upVars, gaVars, activeTab, walletConnected, userAddress, publishedEbooks,
                 purchasedEbooks, authorEbookIds, mb_i, allAuthorEbooks,
                 buyerEbookIds, purchasedPromises>>

\* await getAuthorEbooks(address) settles; the scan loop starts.
LoadAuthorIds ==
  /\ page = "my-books"
  /\ mb_pc = "author"
  /\ \E reply \in AuthorIdsReplies :
       LET log == Settle(reqLog, Len(reqLog), reply)
           ids == getAuthorEbooks(reply)
       IN IF ids.threw
          THEN /\ MbFinally(log)
               /\ UNCHANGED <<authorEbookIds, mb_i, allAuthorEbooks, publishedEbooks>>
          ELSE /\ authorEbookIds' = ids.value
               /\ MbScanLoop(log, totalCount, 1, <<>>)
  /\ UNCHANGED <<baVars, utVars, envVars, rdVars, calls, wrVars, upVars, gaVars, activeTab, walletConnected, userAddress, purchasedEbooks,
                 totalCount, buyerEbookIds, purchasedPromises>>

\* await getEbook(i) of the scan settles: the loop body, i++, the loop head.
LoadScan ==
  /\ page = "my-books"
  /\ mb_pc = "scan"
  /\ \E reply \in ListingReplies :
       LET log == Settle(reqLog, Len(reqLog), reply)
           ebook == getEbook(reply)
       IN IF ebook.threw
          THEN /\ MbFinally(log)
               /\ UNCHANGED <<mb_i, allAuthorEbooks, publishedEbooks>>
          ELSE MbScanLoop(log, totalCount, mb_i + 1,
                          ScanPush(allAuthorEbooks, mb_i, ebook.value, userAddress))
  /\ UNCHANGED <<baVars, utVars, envVars, rdVars, calls, wrVars, upVars, gaVars, activeTab, walletConnected, userAddress, purchasedEbooks,
                 totalCount, authorEbookIds, buyerEbookIds, purchasedPromises>>

\* await getBuyerEbooks(address) settles; the map issues every get-ebook
\* request and Promise.all is awaited.
LoadBuyerIds ==
  /\ page = "my-books"
  /\ mb_pc = "buyer"
  /\ \E reply \in BuyerIdsReplies :
       LET log == Settle(reqLog, Len(reqLog), reply)
           ids == getBuyerEbooks(reply)
       IN IF ids.threw
          THEN /\ MbFinally(log)
               /\ UNCHANGED <<buyerEbookIds, purchasedPromises, purchasedEbooks>>
          ELSE LET promises == [k \in 1..Len(ids.value) |-> PendingPromise(Len(log) + k)]
               IN /\ buyerEbookIds' = ids.value
                  /\ purchasedPromises' = promises
                  /\ MbCollect(IssueAll(log, ids.value, 1), promises)
  /\ UNCHANGED <<baVars, utVars, envVars, rdVars, calls, wrVars, upVars, gaVars, activeTab, walletConnected, userAddress, publishedEbooks,
                 totalCount, authorEbookIds, mb_i, allAuthorEbooks>>

\* One of the parallel getEbook(id) of purchasedPromises settles; when it is
\* the last one, Promise.all resolves and loadMyBooks runs to its end.
LoadPurchased ==
  /\ page = "my-books"
  /\ mb_pc = "purchased"
  /\ \E k \in 1..Len(purchasedPromises) :
       /\ ~purchasedPromises[k].settled
       /\ \E reply \in ListingReplies :
            LET log == Settle(reqLog, purchasedPromises[k].req, reply)
                ebook == getEbook(reply)
            IN IF ebook.threw
               THEN /\ MbFinally(log)
                    /\ UNCHANGED <<purchasedPromises, purchasedEbooks>>
               ELSE LET promises == [purchasedPromises EXCEPT ![k] =
                                       [@ EXCEPT !.settled = TRUE,
                                                 !.value = PurchasedValue(buyerEbookIds[k], ebook.value)]]
                    IN /\ purchasedPromises' = promises
                       /\ MbCollect(log, promises)
  /\ UNCHANGED <<baVars, utVars, envVars, rdVars, calls, wrVars, upVars, gaVars, activeTab, walletConnected, userAddress, publishedEbooks,
                 totalCount, authorEbookIds, mb_i, allAuthorEbooks, buyerEbookIds>>

\* A click on one of the two tab buttons, which are rendered once the wallet
\* is known to be connected, also while the lists load.
SetActiveTab ==
  /\ page = "my-books"
  /\ mb_pc # "unmounted"
  /\ walletConnected
  /\ \E tab \in {"published", "purchased"} : activeTab' = tab
  /\ UNCHANGED <<baVars, utVars, envVars, reqLog, rdVars, calls, wrVars, upVars, gaVars,
                 mb_pc, mb_isLoading, walletConnected, userAddress, publishedEbooks,
                 purchasedEbooks, totalCount, authorEbookIds, mb_i, allAuthorEbooks,
                 buyerEbookIds, purchasedPromises>>

\* ------------------------------------------------------------------------
\* Read-access layer: boolean lookups, and a caller of one function
\* ------------------------------------------------------------------------
\* hasAccess that lets the error of the request escape.
hasAccess_Rethrow(reply) == IF reply.ok THEN Return(reply.value) ELSE Throw

\* hasAccess: the boolean of the reply, false when the request failed.
hasAccess(reply) == IF reply.ok THEN Return(reply.value) ELSE Return(FALSE)

\* isAuthor: the boolean of the reply, false when the request failed.
isAuthor(reply) == IF reply.ok THEN Return(reply.value) ELSE Return(FALSE)

ReadFunctions == {"getEbook", "getEbookCount", "hasAccess", "getAuthorEbooks",
                  "getBuyerEbooks", "isAuthor"}

\* functionName of the read-only request each function issues.
ReadEndpoint(fn) ==
  CASE fn = "getEbook" -> "get-ebook"
    [] fn = "getEbookCount" -> "get-ebook-count"
    [] fn = "hasAccess" -> "has-access"
    [] fn = "getAuthorEbooks" -> "get-author-ebooks"
    [] fn = "getBuyerEbooks" -> "get-buyer-ebooks"
    [] fn = "isAuthor" -> "is-author"

\* The answers the remote side may give to each function.
ReadReplies(fn) ==
  CASE fn = "getEbook" -> GetEbookReplies
    [] fn = "getEbookCount" -> CountReplies
    [] fn = "hasAccess" -> BoolReplies
    [] fn = "getAuthorEbooks" -> AuthorIdsReplies
    [] fn = "getBuyerEbooks" -> BuyerIdsReplies
    [] fn = "isAuthor" -> BoolReplies

\* The outcome of fn once its request has settled with reply.
ReadOutcome(fn, reply) ==
  CASE fn = "getEbook" -> getEbook(reply)
    [] fn = "getEbookCount" -> getEbookCount(reply)
    [] fn = "hasAccess" -> hasAccess(reply)
    [] fn = "getAuthorEbooks" -> getAuthorEbooks(reply)
    [] fn = "getBuyerEbooks" -> getBuyerEbooks(reply)
    [] fn = "isAuthor" -> isAuthor(reply)

\* A read-access function is called: up to its await.
ReadCall ==
  /\ page = "reads"
  /\ rd_pc = "idle"
  /\ \E fn \in ReadFunctions :
       /\ rd_fn' = fn
       /\ reqLog' = Issue(reqLog, ReadEndpoint(fn), 1)
  /\ rd_pc' = "awaiting"
  /\ UNCHANGED <<baVars, utVars, envVars, gaVars, mbVars, rd_result, calls, wrVars, upVars>>

\* Its request settles: the function returns (or throws) to the caller.
ReadSettle ==
  /\ page = "reads"
  /\ rd_pc = "awaiting"
  /\ \E reply \in ReadReplies(rd_fn) :
       /\ reqLog' = Settle(reqLog, Len(reqLog), reply)
       /\ rd_result' = ReadOutcome(rd_fn, reply)
  /\ rd_pc' = "done"
  /\ UNCHANGED <<baVars, utVars, envVars, gaVars, mbVars, rd_fn, calls, wrVars, upVars>>

\* ------------------------------------------------------------------------
\* Write-access layer
\* ------------------------------------------------------------------------
\* Transaction ids the wallet hands to onFinish.
TxIds == {"0xa1", "0xb2"}

NullTx == "null"

\* A callback parameter: omitted, the one of a caller of the service module,
\* or the one the upload page passes.
Callbacks == {"undefined", "caller", "upload"}

\* The request openContractCall opens; data is what the wallet reports.
OpenContractCall(functionName, functionArgs, onFinish, onCancel) ==
  [network |-> getNetwork, functionName |-> functionName, functionArgs |-> functionArgs,
   onFinish |-> onFinish, onCancel |-> onCancel, status |-> "open", data |-> NullTx]

registerEbook(priceArg, onFinish, onCancel) ==
  OpenContractCall("register-ebook", <<priceArg>>, onFinish, onCancel)

buyEbook(ebookId, onFinish, onCancel) ==
  OpenContractCall("buy-ebook", <<ebookId>>, onFinish, onCancel)

updatePrice(ebookId, newPrice, onFinish, onCancel) ==
  OpenContractCall("update-price", <<ebookId, newPrice>>, onFinish, onCancel)

\* deactivateEbook with the entry point of updatePrice.
deactivateEbook_WrongEntry(ebookId, onFinish, onCancel) ==
  OpenContractCall("update-price", <<ebookId>>, onFinish, onCancel)

deactivateEbook(ebookId, onFinish, onCancel) ==
  OpenContractCall("deactivate-ebook", <<ebookId>>, onFinish, onCancel)

WriteFunctions == {"registerEbook", "buyEbook", "updatePrice", "deactivateEbook"}

\* The request fn opens when a caller invokes it.
WriteRequest(fn, onFinish, onCancel) ==
  CASE fn = "registerEbook" -> registerEbook(1, onFinish, onCancel)
    [] fn = "buyEbook" -> buyEbook(1, onFinish, onCancel)
    [] fn = "updatePrice" -> updatePrice(1, 1, onFinish, onCancel)
    [] fn = "deactivateEbook" -> deactivateEbook(1, onFinish, onCancel)

\* onFinish?.(data), onCancel?.(): whether the callback runs, and whether the
\* call throws.
OptionalCall(callback) ==
  [runs |-> callback # "undefined", throws |-> FALSE]

\* The callbacks the upload page passes to registerEbook.
\* (data) => { setTxId(data.txId); setIsLoading(false); }
UploadOnFinish(t) ==
  /\ txId' = t
  /\ up_isLoading' = FALSE

\* UploadOnCancel without setIsLoading(false).
UploadOnCancel_KeepsLoading ==
  /\ txId' = txId
  /\ up_isLoading' = up_isLoading

\* () => { setIsLoading(false); }
UploadOnCancel ==
  /\ txId' = txId
  /\ up_isLoading' = FALSE

\* A caller invokes a write-access function, with or without callbacks.
WriteCall ==
  /\ page = "writes"
  /\ Len(calls) < MaxCalls
  /\ \E fn \in WriteFunctions, onFinish \in Callbacks \ {"upload"},
        onCancel \in Callbacks \ {"upload"} :
       /\ calls' = Append(calls, WriteRequest(fn, onFinish, onCancel))
       /\ wr_invoked' = Append(wr_invoked, fn)
  /\ UNCHANGED <<baVars, utVars, envVars, reqLog, gaVars, mbVars, rdVars, wr_finished, wr_cancelled, wr_failed, upVars>>

\* The wallet reports approval of request k: the onFinish handed to
\* openContractCall runs.
WalletApprove ==
  /\ \E k \in 1..Len(calls), t \in TxIds :
       /\ calls[k].status = "open"
       /\ calls' = [calls EXCEPT ![k] = [@ EXCEPT !.status = "approved", !.data = t]]
       /\ LET call == OptionalCall(calls[k].onFinish)
          IN /\ wr_failed' = (wr_failed \/ call.throws)
             /\ wr_finished' = IF call.runs /\ calls[k].onFinish = "caller"
                               THEN Append(wr_finished, [call |-> k, data |-> t])
                               ELSE wr_finished
             /\ IF call.runs /\ calls[k].onFinish = "upload"
                THEN UploadOnFinish(t)
                ELSE UNCHANGED <<txId, up_isLoading>>
  /\ UNCHANGED <<baVars, utVars, envVars, reqLog, gaVars, mbVars, rdVars, wr_invoked, wr_cancelled,
                 up_pc, error, formVars>>

\* The wallet reports rejection of request k: the onCancel handed to
\* openContractCall runs.
WalletReject ==
  /\ \E k \in 1..Len(calls) :
       /\ calls[k].status = "open"
       /\ calls' = [calls EXCEPT ![k] = [@ EXCEPT !.status = "rejected"]]
       /\ LET call == OptionalCall(calls[k].onCancel)
          IN /\ wr_failed' = (wr_failed \/ call.throws)
             /\ wr_cancelled' = IF call.runs /\ calls[k].onCancel = "caller"
                                THEN Append(wr_cancelled, k)
                                ELSE wr_cancelled
             /\ IF call.runs /\ calls[k].onCancel = "upload"
                THEN UploadOnCancel
                ELSE UNCHANGED <<txId, up_isLoading>>
  /\ UNCHANGED <<baVars, utVars, envVars, reqLog, gaVars, mbVars, rdVars, wr_invoked, wr_finished,
                 up_pc, error, formVars>>

\* ------------------------------------------------------------------------
\* Texts
\* ------------------------------------------------------------------------
\* Texts are sequences of characters.
Digits == {"0", "1", "2", "3", "4", "5", "6", "7", "8", "9"}

DigitValue(c) ==
  CASE c = "0" -> 0 [] c = "1" -> 1 [] c = "2" -> 2 [] c = "3" -> 3 [] c = "4" -> 4
    [] c = "5" -> 5 [] c = "6" -> 6 [] c = "7" -> 7 [] c = "8" -> 8 [] c = "9" -> 9

WhiteSpace == {" "}

MicroPerStx == 1000000

RECURSIVE TrimStart(_)
TrimStart(s) == IF s # <<>> /\ Head(s) \in WhiteSpace THEN TrimStart(Tail(s)) ELSE s

RECURSIVE TrimEnd(_)
TrimEnd(s) ==
  IF s # <<>> /\ s[Len(s)] \in WhiteSpace THEN TrimEnd(SubSeq(s, 1, Len(s) - 1)) ELSE s

\* String.prototype.trim
Trim(s) == TrimEnd(TrimStart(s))

\* ------------------------------------------------------------------------
\* Numbers: the double-precision arithmetic of *, / and Math.floor
\* ------------------------------------------------------------------------
\* A natural number wider than 31 bits is the sequence of its bits, the most
\* significant first; the empty sequence is 0.
RECURSIVE NatBits(_)
NatBits(n) == IF n = 0 THEN <<>> ELSE Append(NatBits(n \div 2), n % 2)

RECURSIVE BitsNat(_, _)
\* The number the first k bits of b denote, for a number of at most 31 bits.
BitsNat(b, k) == IF k = 0 THEN 0 ELSE 2 * BitsNat(b, k - 1) + b[k]

Zeros(n) == [k \in 1..n |-> 0]

\* b without leading zeros.
Strip(b) ==
  LET ones == {k \in 1..Len(b) : b[k] = 1}
  IN IF ones = {} THEN <<>>
     ELSE SubSeq(b, CHOOSE k \in ones : \A j \in ones : k <= j, Len(b))

\* The arithmetic goes over limbs of LimbBits bits, to keep a product and a
\* partial remainder within 31 bits.
LimbBits == 7

LimbBase == 128

LimbWeights == <<64, 32, 16, 8, 4, 2, 1>>

\* The limbs of the number with bits b, the most significant first.
ToLimbs(b) ==
  LET count == (Len(b) + LimbBits - 1) \div LimbBits
      pad == count * LimbBits - Len(b)
      Bit(k) == IF k <= pad THEN 0 ELSE b[k - pad]
      Term(j, i) == Bit(LimbBits * (j - 1) + i) * LimbWeights[i]
  IN [j \in 1..count |-> Term(j, 1) + Term(j, 2) + Term(j, 3) + Term(j, 4)
                           + Term(j, 5) + Term(j, 6) + Term(j, 7)]

\* The bits of the number with limbs l.
FromLimbs(l) ==
  Strip([k \in 1..(LimbBits * Len(l)) |->
           (l[((k - 1) \div LimbBits) + 1] \div LimbWeights[((k - 1) % LimbBits) + 1]) % 2])

RECURSIVE NatLimbs(_)
NatLimbs(n) == IF n = 0 THEN <<>> ELSE Append(NatLimbs(n \div LimbBase), n % LimbBase)

RECURSIVE MulFrom(_, _, _, _)
\* The limbs of l[1..k] * c + carry, for an integer c of at most 24 bits.
MulFrom(l, k, c, carry) ==
  IF k = 0 THEN NatLimbs(carry)
  ELSE LET t == l[k] * c + carry
       IN Append(MulFrom(l, k - 1, c, t \div LimbBase), t % LimbBase)

\* The bits of b * c.
MulSmall(b, c) == LET l == ToLimbs(b) IN FromLimbs(MulFrom(l, Len(l), c, 0))

RECURSIVE DivTo(_, _, _)
\* Quotient and remainder of l[1..k] by an integer d of at most 24 bits.
DivTo(l, k, d) ==
  IF k = 0 THEN [q |-> <<>>, r |-> 0]
  ELSE LET p == DivTo(l, k - 1, d)
           t == p.r * LimbBase + l[k]
       IN [q |-> Append(p.q, t \div d), r |-> t % d]

\* The bits of the quotient of b by d, and the remainder.
DivSmall(b, d) ==
  LET l == ToLimbs(b)
      p == DivTo(l, Len(l), d)
  IN [q |-> FromLimbs(p.q), r |-> p.r]

\* The bits of b + 1, for b of k bits.
IncTo(b, k) ==
  LET zeros == {j \in 1..k : b[j] = 0}
      last == CHOOSE j \in zeros : \A i \in zeros : i <= j
  IN IF zeros = {} THEN <<1>> \o Zeros(k)
     ELSE [j \in 1..k |-> IF j < last THEN b[j] ELSE IF j = last THEN 1 ELSE 0]

RECURSIVE Pow10(_)
Pow10(k) == IF k = 0 THEN 1 ELSE 10 * Pow10(k - 1)

\* The significand of a double has 53 bits.
Precision == 53

\* Bits a quotient is computed with beyond its integer part: enough for the
\* quotient of a positive integer by one of at most 24 bits to have more than
\* Precision bits.
GuardBits == 96

\* A Number is NaN or (-1)^neg * m * 2^e, where m is 0 (no bits) or has
\* Precision bits of which the first is 1.  Infinities and subnormal numbers
\* are out of the range of the amounts followed here.
NaN == [nan |-> TRUE, neg |-> FALSE, m |-> <<>>, e |-> 0]

\* Round to nearest, ties to even: the Number nearest to n * 2^e, or to a
\* little more than that when sticky (then n has more than Precision bits).
RoundToDouble(neg, n, sticky, e) ==
  LET len == Len(n)
  IN IF len = 0 THEN [nan |-> FALSE, neg |-> neg, m |-> <<>>, e |-> 0]
     ELSE IF len <= Precision
     THEN [nan |-> FALSE, neg |-> neg, m |-> n \o Zeros(Precision - len),
           e |-> e - (Precision - len)]
     ELSE LET kept == SubSeq(n, 1, Precision)
              half == n[Precision + 1] = 1
              rest == sticky \/ \E k \in (Precision + 2)..len : n[k] = 1
              up == half /\ (rest \/ kept[Precision] = 1)
              m == IF up THEN IncTo(kept, Precision) ELSE kept
          IN IF Len(m) > Precision
             THEN [nan |-> FALSE, neg |-> neg, m |-> SubSeq(m, 1, Precision),
                   e |-> e + (len - Precision) + 1]
             ELSE [nan |-> FALSE, neg |-> neg, m |-> m, e |-> e + (len - Precision)]

\* The Number nearest to n / d, for integers 0 <= n and 0 < d, d of at most
\* 24 bits: the
\* value of a decimal literal, and of the division of two such integers.
Ratio(neg, n, d) ==
  LET p == DivSmall(NatBits(n) \o Zeros(GuardBits), d)
  IN IF n = 0 THEN RoundToDouble(neg, <<>>, FALSE, 0)
     ELSE RoundToDouble(neg, p.q, p.r # 0, 0 - GuardBits)

\* x * c for an integer c of at most 24 bits.
Times(x, c) ==
  IF x.nan THEN NaN ELSE RoundToDouble(x.neg, Strip(MulSmall(x.m, c)), FALSE, x.e)

\* x <= 0
NotAboveZero(x) == ~x.nan /\ (x.m = <<>> \/ x.neg)

\* x < 0
BelowZero(x) == ~x.nan /\ x.m # <<>> /\ x.neg

\* Math.floor(x) as an integer, for a Number that is not NaN and whose floor
\* has at most 31 bits.
MathFloor(x) ==
  LET len == Len(x.m)
      whole == IF x.e >= 0 THEN BitsNat(x.m \o Zeros(x.e), len + x.e)
               ELSE IF len + x.e <= 0 THEN 0
               ELSE BitsNat(x.m, len + x.e)
      fraction == x.e < 0 /\ \E k \in 1..len : k > len + x.e /\ x.m[k] = 1
  IN IF x.neg THEN 0 - (whole + IF fraction THEN 1 ELSE 0) ELSE whole

RECURSIVE IntegerDigits(_, _, _)
\* The integer the digits of s from position k on denote, how many digits
\* there are, and the position after them.
IntegerDigits(s, k, acc) ==
  IF k <= Len(s) /\ s[k] \in Digits
  THEN LET rest == IntegerDigits(s, k + 1, acc * 10 + DigitValue(s[k]))
       IN [rest EXCEPT !.count = @ + 1]
  ELSE [value |-> acc, count |-> 0, next |-> k]

\* parseFloat for texts without exponent, of at most nine digits and at most
\* seven after the point: leading
\* white space, a sign, digits, a point and digits; NaN when there is no
\* digit.
parseFloat(text) ==
  LET s == TrimStart(text)
      negative == s # <<>> /\ s[1] = "-"
      signed == s # <<>> /\ s[1] \in {"-", "+"}
      int == IntegerDigits(s, IF signed THEN 2 ELSE 1, 0)
      pointed == int.next <= Len(s) /\ s[int.next] = "."
      frac == IF pointed
              THEN IntegerDigits(s, int.next + 1, 0)
              ELSE [value |-> 0, count |-> 0, next |-> int.next]
  IN IF int.count + frac.count = 0 THEN NaN
     ELSE Ratio(negative, int.value * Pow10(frac.count) + frac.value, Pow10(frac.count))

\* ------------------------------------------------------------------------
\* Utility functions
\* ------------------------------------------------------------------------
\* stxToMicroStx: Math.floor(stx * 1_000_000)
stxToMicroStx(stx) == MathFloor(Times(stx, MicroPerStx))

\* microStxToStx: microStx / 1_000_000
microStxToStx(microStx) == Ratio(FALSE, microStx, MicroPerStx)

DigitChar(d) ==
  CASE d = 0 -> "0" [] d = 1 -> "1" [] d = 2 -> "2" [] d = 3 -> "3" [] d = 4 -> "4"
    [] d = 5 -> "5" [] d = 6 -> "6" [] d = 7 -> "7" [] d = 8 -> "8" [] d = 9 -> "9"

RECURSIVE NatText(_)
\* The decimal digits of n.
NatText(n) == IF n < 10 THEN <<DigitChar(n)>> ELSE Append(NatText(n \div 10), DigitChar(n % 10))

RECURSIVE FixedDigits(_, _)
\* The last count decimal digits of n, with leading zeros.
FixedDigits(n, count) ==
  IF count = 0 THEN <<>> ELSE Append(FixedDigits(n \div 10, count - 1), DigitChar(n % 10))

\* Number.prototype.toFixed(digits) for a Number that is not NaN and below
\* 2^31 / 10^digits in size: with n the integer for which n / 10^digits is
\* nearest to x (the larger one of two), the digits of n with a point before
\* the last digits of them.
toFixed(x, digits) ==
  LET scaled == Strip(MulSmall(x.m, Pow10(digits)))
      len == Len(scaled)
      keep == len + x.e
      whole == IF x.e >= 0 THEN BitsNat(scaled \o Zeros(x.e), keep)
               ELSE IF keep <= 0 THEN 0
               ELSE BitsNat(scaled, keep)
      half == x.e < 0 /\ keep >= 0 /\ keep < len /\ scaled[keep + 1] = 1
      n == whole + IF half THEN 1 ELSE 0
  IN (IF BelowZero(x) THEN <<"-">> ELSE <<>>)
       \o NatText(n \div Pow10(digits)) \o <<".">> \o FixedDigits(n % Pow10(digits), digits)

\* formatStx with two digits after the point.
formatStx_TwoDigits(microStx) == toFixed(microStxToStx(microStx), 2) \o <<" ", "S", "T", "X">>

\* formatStx: `${microStxToStx(microStx).toFixed(6)} STX`
formatStx(microStx) == toFixed(microStxToStx(microStx), 6) \o <<" ", "S", "T", "X">>

\* Amounts of STX a caller converts, written as the decimal literal
\* units / 10^places: whole numbers of micro-STX, and amounts between two.
StxAmounts ==
  {[units |-> n, places |-> 6] : n \in {1, 249, 250, 500000, 1000000, 1500000}}
    \cup {[units |-> n, places |-> 7] : n \in {5, 15, 10000005}}
    \cup {[units |-> n, places |-> 1] : n \in {5, 25}}

\* The Number a decimal literal denotes.
Literal(a) == Ratio(FALSE, a.units, Pow10(a.places))

\* Amounts of micro-STX a caller converts or formats.
MicroAmounts == {0, 1, 248, 249, 500000, 1000000, 1500000, 123456789}

StxToMicroStxCall ==
  /\ page = "utils"
  /\ \E a \in StxAmounts :
       /\ ut_arg' = a
       /\ ut_result' = stxToMicroStx(Literal(a))
  /\ ut_fn' = "stxToMicroStx"
  /\ UNCHANGED <<baVars, envVars, reqLog, gaVars, mbVars, rdVars, calls, wrVars, upVars>>

MicroStxToStxCall ==
  /\ page = "utils"
  /\ \E n \in MicroAmounts :
       /\ ut_arg' = n
       /\ ut_result' = microStxToStx(n)
  /\ ut_fn' = "microStxToStx"
  /\ UNCHANGED <<baVars, envVars, reqLog, gaVars, mbVars, rdVars, calls, wrVars, upVars>>

FormatStxCall ==
  /\ page = "utils"
  /\ \E n \in MicroAmounts :
       /\ ut_arg' = n
       /\ ut_result' = formatStx(n)
  /\ ut_fn' = "formatStx"
  /\ UNCHANGED <<baVars, envVars, reqLog, gaVars, mbVars, rdVars, calls, wrVars, upVars>>

\* A caller converts an amount to micro-STX and the result back to STX.
RoundTripCall ==
  /\ page = "utils"
  /\ \E a \in StxAmounts :
       /\ ut_arg' = a
       /\ ut_result' = microStxToStx(stxToMicroStx(Literal(a)))
  /\ ut_fn' = "roundTrip"
  /\ UNCHANGED <<baVars, envVars, reqLog, gaVars, mbVars, rdVars, calls, wrVars, upVars>>

\* ------------------------------------------------------------------------
\* Upload page
\* ------------------------------------------------------------------------
NoError == "null"

WalletError == "Please connect your wallet first."
TitleError == "Title is required."
DescriptionError == "Description is required."
PriceError == "Price must be greater than 0."
CidError == "IPFS CID is required. Upload your ebook to IPFS first."
RegisterError == "Failed to register ebook. Please try again."

\* What the user types into the fields.
TitleInputs == {<<>>, <<" ", " ">>, <<" ", "a">>}
DescriptionInputs == {<<>>, <<" ">>, <<"b", " ">>}
CidInputs == {<<>>, <<"Q">>}
\* "", "0", "-1", "0.5", "0.0000001"
PriceInputs == {<<>>, <<"0">>, <<"-", "1">>, <<"0", ".", "5">>,
                <<"0", ".", "0", "0", "0", "0", "0", "0", "1">>}

\* PriceRejected with < in place of <=.
PriceRejected_ZeroPasses(p) == p = <<>> \/ BelowZero(parseFloat(p))

\* !price || parseFloat(price) <= 0
PriceRejected(p) == p = <<>> \/ NotAboveZero(parseFloat(p))

\* Validate with !title in place of !title.trim().
Validate_NoTrim(connected, t, d, p, cid) ==
  IF ~connected THEN WalletError
  ELSE IF t = <<>> THEN TitleError
  ELSE IF Trim(d) = <<>> THEN DescriptionError
  ELSE IF PriceRejected(p) THEN PriceError
  ELSE IF Trim(cid) = <<>> THEN CidError
  ELSE NoError

\* Validate with the wallet check after the checks of the fields.
Validate_FieldsFirst(connected, t, d, p, cid) ==
  IF Trim(t) = <<>> THEN TitleError
  ELSE IF Trim(d) = <<>> THEN DescriptionError
  ELSE IF PriceRejected(p) THEN PriceError
  ELSE IF Trim(cid) = <<>> THEN CidError
  ELSE IF ~connected THEN WalletError
  ELSE NoError

\* The checks of handleSubmit before the try block, in their order: the
\* message of the first one that fails, NoError when none does.
Validate(connected, t, d, p, cid) ==
  IF ~connected THEN WalletError
  ELSE IF Trim(t) = <<>> THEN TitleError
  ELSE IF Trim(d) = <<>> THEN DescriptionError
  ELSE IF PriceRejected(p) THEN PriceError
  ELSE IF Trim(cid) = <<>> THEN CidError
  ELSE NoError

\* FormEnabled without disabled={isLoading}.
FormEnabled_WhileLoading == page = "upload" /\ txId = NullTx

\* The form is rendered only while txId is null, and its fields and its
\* submit button are disabled while isLoading.
FormEnabled == page = "upload" /\ txId = NullTx /\ ~up_isLoading

SetTitle ==
  /\ FormEnabled
  /\ \E v \in TitleInputs : title' = v
  /\ UNCHANGED <<baVars, utVars, envVars, reqLog, gaVars, mbVars, rdVars, calls, wrVars, up_pc,
                 up_isLoading, error, txId, description, price, ipfsCid>>

SetDescription ==
  /\ FormEnabled
  /\ \E v \in DescriptionInputs : description' = v
  /\ UNCHANGED <<baVars, utVars, envVars, reqLog, gaVars, mbVars, rdVars, calls, wrVars, up_pc,
                 up_isLoading, error, txId, title, price, ipfsCid>>

SetPrice ==
  /\ FormEnabled
  /\ \E v \in PriceInputs : price' = v
  /\ UNCHANGED <<baVars, utVars, envVars, reqLog, gaVars, mbVars, rdVars, calls, wrVars, up_pc,
                 up_isLoading, error, txId, title, description, ipfsCid>>

SetIpfsCid ==
  /\ FormEnabled
  /\ \E v \in CidInputs : ipfsCid' = v
  /\ UNCHANGED <<baVars, utVars, envVars, reqLog, gaVars, mbVars, rdVars, calls, wrVars, up_pc,
                 up_isLoading, error, txId, title, description, price>>

\* connectWallet completes: the session holder is signed in.
ConnectWallet ==
  /\ page \in {"upload", "utils"}
  /\ ~signedIn
  /\ signedIn' = TRUE
  /\ UNCHANGED <<baVars, utVars, page, hasWindow, networkEnv, reqLog, gaVars, mbVars, rdVars, calls,
                 wrVars, upVars>>

\* disconnectWallet: userSession.signUserOut().
DisconnectWallet ==
  /\ page \in {"upload", "utils"}
  /\ signedIn
  /\ signedIn' = FALSE
  /\ UNCHANGED <<baVars, utVars, page, hasWindow, networkEnv, reqLog, gaVars, mbVars, rdVars, calls,
                 wrVars, upVars>>

\* handleSubmit up to its first await: setError(null), setTxId(null), the
\* checks, and setIsLoading(true) when all of them pass.  The handler is
\* followed for every content of the fields: the min and step attributes of
\* the price input are checked by the browser, not by the handler.
HandleSubmit ==
  /\ FormEnabled
  /\ up_pc = "idle"
  /\ Len(calls) < MaxCalls
  /\ txId' = NullTx
  /\ LET message == Validate(isSignedIn, title, description, price, ipfsCid)
     IN IF message # NoError
        THEN /\ error' = message
             /\ up_isLoading' = up_isLoading
             /\ up_pc' = "idle"
        ELSE /\ error' = NoError
             /\ up_isLoading' = TRUE
             /\ up_pc' = "digest"
  /\ UNCHANGED <<baVars, utVars, envVars, reqLog, gaVars, mbVars, rdVars, calls, wrVars, formVars>>

\* crypto.subtle.digest settles and the try block runs on: registerEbook opens
\* its request with the price in micro-STX.
SubmitRegister ==
  /\ page = "upload"
  /\ up_pc = "digest"
  /\ calls' = Append(calls, registerEbook(stxToMicroStx(parseFloat(price)),
                                          "upload", "upload"))
  /\ up_pc' = "idle"
  /\ UNCHANGED <<baVars, utVars, envVars, reqLog, gaVars, mbVars, rdVars, wrVars, up_isLoading, error,
                 txId, formVars>>

\* SubmitThrows without setIsLoading(false).
SubmitThrows_KeepsLoading ==
  /\ page = "upload"
  /\ up_pc = "digest"
  /\ error' = RegisterError
  /\ up_isLoading' = up_isLoading
  /\ up_pc' = "idle"
  /\ UNCHANGED <<baVars, utVars, envVars, reqLog, gaVars, mbVars, rdVars, calls, wrVars, txId, formVars>>

\* The try block throws before a request is opened: the catch block.
SubmitThrows ==
  /\ page = "upload"
  /\ up_pc = "digest"
  /\ error' = RegisterError
  /\ up_isLoading' = FALSE
  /\ up_pc' = "idle"
  /\ UNCHANGED <<baVars, utVars, envVars, reqLog, gaVars, mbVars, rdVars, calls, wrVars, txId, formVars>>

\* The link of the success view, rendered while txId is not null: the
\* transaction it shows and the chain it names.
\* process.env.NEXT_PUBLIC_NETWORK === "mainnet" ? ...?chain=mainnet : ...?chain=testnet
explorerUrl ==
  [txid |-> txId, chain |-> IF networkEnv = "mainnet" THEN "mainnet" ELSE "testnet"]

\* ------------------------------------------------------------------------
\* Specification
\* ------------------------------------------------------------------------
Init ==
  /\ page \in Pages
  /\ hasWindow \in PageHasWindow(page)
  /\ signedIn \in PageSignedIn(page)
  /\ networkEnv \in PageNetworkEnvs(page)
  /\ reqLog = <<>>
  /\ ga_pc = "idle"
  /\ ga_count = 0
  /\ ga_i = 0
  /\ ga_ebooks = <<>>
  /\ ga_result = Return(<<>>)
  /\ ba_pc = "idle"
  /\ ba_ebookIds = <<>>
  /\ ba_k = 0
  /\ ba_ebooks = <<>>
  /\ ba_result = Return(<<>>)
  /\ mb_pc = "unmounted"
  /\ mb_isLoading = TRUE
  /\ walletConnected = FALSE
  /\ userAddress = NullAddress
  /\ publishedEbooks = <<>>
  /\ purchasedEbooks = <<>>
  /\ activeTab = "published"
  /\ totalCount = 0
  /\ authorEbookIds = <<>>
  /\ mb_i = 0
  /\ allAuthorEbooks = <<>>
  /\ buyerEbookIds = <<>>
  /\ purchasedPromises = <<>>
  /\ rd_pc = "idle"
  /\ rd_fn = "getEbook"
  /\ rd_result = Return(Null)
  /\ calls = <<>>
  /\ wr_invoked = <<>>
  /\ wr_finished = <<>>
  /\ wr_cancelled = <<>>
  /\ wr_failed = FALSE
  /\ up_pc = "idle"
  /\ up_isLoading = FALSE
  /\ error = NoError
  /\ txId = NullTx
  /\ title = <<>>
  /\ description = <<>>
  /\ price = <<>>
  /\ ipfsCid = <<>>
  /\ ut_fn = "none"
  /\ ut_arg = NoValue
  /\ ut_result = NoValue

Next ==
  \/ GetAllCall
  \/ GetAllCount
  \/ GetAllEbook
  \/ GetByAuthorCall
  \/ GetByAuthorIds
  \/ GetByAuthorEbook
  \/ MyBooksMount
  \/ LoadCount
  \/ LoadAuthorIds
  \/ LoadScan
  \/ LoadBuyerIds
  \/ LoadPurchased
  \/ SetActiveTab
  \/ ReadCall
  \/ ReadSettle
  \/ WriteCall
  \/ WalletApprove
  \/ WalletReject
  \/ SetTitle
  \/ SetDescription
  \/ SetPrice
  \/ SetIpfsCid
  \/ ConnectWallet
  \/ DisconnectWallet
  \/ HandleSubmit
  \/ SubmitRegister
  \/ SubmitThrows
  \/ GetUserAddressCall
  \/ StxToMicroStxCall
  \/ MicroStxToStxCall
  \/ FormatStxCall
  \/ RoundTripCall

Spec == Init /\ [][Next]_vars

\* The listing compositions: getAllEbooks, getEbooksByAuthor and the My
\* Books page.
InitListings == Init /\ page \in {"index", "author", "my-books"}

NextListings ==
  \/ GetAllCall
  \/ GetAllCount
  \/ GetAllEbook
  \/ GetByAuthorCall
  \/ GetByAuthorIds
  \/ GetByAuthorEbook
  \/ MyBooksMount
  \/ LoadCount
  \/ LoadAuthorIds
  \/ LoadScan
  \/ LoadBuyerIds
  \/ LoadPurchased
  \/ SetActiveTab

SpecListings == InitListings /\ [][NextListings]_vars

\* A step of the mount effect or of loadMyBooks: the effect runs, or a remote
\* call completes and loadMyBooks runs on to its next await or to its end.
LoadStep ==
  \/ MyBooksMount
  \/ LoadCount
  \/ LoadAuthorIds
  \/ LoadScan
  \/ LoadBuyerIds
  \/ LoadPurchased

\* The My Books page when the effect runs and every remote call completes.
\* The clicks on the tabs are left out: SetActiveTab reads and writes
\* activeTab only, which no step of the load reads.
InitLoading == Init /\ page = "my-books"

NextLoading == LoadStep

SpecLoading == InitLoading /\ [][NextLoading]_vars /\ WF_vars(LoadStep)

\* The callers of single read-access and write-access functions.
InitService == Init /\ page \in {"reads", "writes"}

NextService ==
  \/ ReadCall
  \/ ReadSettle
  \/ WriteCall
  \/ WalletApprove
  \/ WalletReject

SpecService == InitService /\ [][NextService]_vars

\* The upload page.
InitUpload == Init /\ page = "upload"

NextUpload ==
  \/ SetTitle
  \/ SetDescription
  \/ SetPrice
  \/ SetIpfsCid
  \/ ConnectWallet
  \/ DisconnectWallet
  \/ HandleSubmit
  \/ SubmitRegister
  \/ SubmitThrows
  \/ WalletApprove
  \/ WalletReject

SpecUpload == InitUpload /\ [][NextUpload]_vars

\* The caller of the session and utility functions.
InitUtilities == Init /\ page = "utils"

NextUtilities ==
  \/ ConnectWallet
  \/ DisconnectWallet
  \/ GetUserAddressCall
  \/ StxToMicroStxCall
  \/ MicroStxToStxCall
  \/ FormatStxCall
  \/ RoundTripCall

SpecUtilities == InitUtilities /\ [][NextUtilities]_vars

\* ------------------------------------------------------------------------
\* Properties
\* ------------------------------------------------------------------------
GetEbookRequests(log) == {k \in 1..Len(log) : log[k].functionName = "get-ebook"}

\* C2: when getEbookCount yields 0, because the remote count is 0 or because
\* the count request failed, getAllEbooks returns the empty sequence and no
\* get-ebook request is ever issued.
C2_ZeroCountNoFetch ==
  (page = "index" /\ ga_pc \in {"ebook", "done"} /\ ga_count = 0)
    => /\ ga_pc = "done"
       /\ ga_result = Return(<<>>)
       /\ GetEbookRequests(reqLog) = {}

C2_Witness ==
  /\ page = "index"
  /\ ga_pc = "done"
  /\ ga_count = 0
  /\ reqLog[1].functionName = "get-ebook-count"
  /\ reqLog[1].status = "failed"

\* The record a settled get-ebook request fetched: null when it failed.
Fetched(r) == IF r.status = "ok" THEN r.reply.value ELSE Null

\* What getEbookCount yielded, read from the log: 0 when the request failed.
CountYielded(log) == IF log[1].status = "ok" THEN log[1].reply.value ELSE 0

RECURSIVE ActiveOf(_, _)
\* The active listings among the get-ebook requests 2..k of the log of
\* getAllEbooks, in the order of the log.
ActiveOf(log, k) ==
  IF k <= 1 THEN <<>>
  ELSE LET rest == ActiveOf(log, k - 1)
           v == Fetched(log[k])
       IN IF v # Null /\ v.active
          THEN Append(rest, [id |-> log[k].arg, author |-> v.author, active |-> TRUE])
          ELSE rest

BuyerIdx(log) ==
  LET found == {k \in 1..Len(log) : log[k].functionName = "get-buyer-ebooks"}
  IN IF found = {} THEN 0 ELSE CHOOSE k \in found : TRUE

\* The get-ebook requests of the scan: those before get-buyer-ebooks.
ScanRequests(log) ==
  LET b == BuyerIdx(log)
  IN {k \in 1..(IF b = 0 THEN Len(log) ELSE b - 1) : log[k].functionName = "get-ebook"}

Ids(ebooks) == {ebooks[k].id : k \in 1..Len(ebooks)}

RECURSIVE OwnOf(_, _, _, _)
\* The listings of address among the ids 1..n, in ascending id order, each
\* taken from the request of scan for its id.
OwnOf(log, scan, n, address) ==
  IF n = 0 THEN <<>>
  ELSE LET rest == OwnOf(log, scan, n - 1, address)
           k == CHOOSE r \in scan : log[r].arg = n
           v == Fetched(log[k])
       IN IF v # Null /\ v.author = address
          THEN Append(rest, [id |-> n, author |-> v.author, active |-> v.active])
          ELSE rest

\* C8: the published list loadMyBooks sets is the listings among the ids
\* 1..count whose fetched record is non-null and has the signed-in address as
\* author, in ascending id order, whatever id list getAuthorEbooks returned.
C8_PublishedFromScan ==
  (page = "my-books" /\ mb_pc \in {"buyer", "purchased", "done"} /\ walletConnected) =>
    LET scan == ScanRequests(reqLog)
    IN /\ totalCount = CountYielded(reqLog)
       /\ \A i \in 1..totalCount : Cardinality({k \in scan : reqLog[k].arg = i}) = 1
       /\ \A k \in scan : reqLog[k].arg \in 1..totalCount
       /\ publishedEbooks = OwnOf(reqLog, scan, totalCount, userAddress)

C8_Witness ==
  /\ page = "my-books"
  /\ mb_pc = "done"
  /\ authorEbookIds = <<1>>
  /\ Ids(publishedEbooks) = {2}

\* The id list getBuyerEbooks returned, read from the log.
BuyerIdsYielded(log) ==
  IF log[BuyerIdx(log)].status = "ok" THEN log[BuyerIdx(log)].reply.value ELSE <<>>

\* C9: the purchased list is built from the ids getBuyerEbooks returned and
\* from nothing else: one get-ebook request per returned id, one record for
\* every returned id whose fetch is non-null, deactivated listings included.
C9_PurchasedFromBuyerIndex ==
  (page = "my-books" /\ mb_pc = "done" /\ walletConnected) =>
    LET b == BuyerIdx(reqLog)
        ids == BuyerIdsYielded(reqLog)
        NonNull == {k \in 1..Len(ids) : Fetched(reqLog[b + k]) # Null}
        Record(k) == [id |-> ids[k],
                      author |-> Fetched(reqLog[b + k]).author,
                      active |-> Fetched(reqLog[b + k]).active]
    IN /\ Len(reqLog) = b + Len(ids)
       /\ \A k \in 1..Len(ids) :
            reqLog[b + k].functionName = "get-ebook" /\ reqLog[b + k].arg = ids[k]
       /\ Len(purchasedEbooks) = Cardinality(NonNull)
       /\ \A k \in NonNull : \E n \in 1..Len(purchasedEbooks) : purchasedEbooks[n] = Record(k)
       /\ \A n \in 1..Len(purchasedEbooks) : \E k \in NonNull : purchasedEbooks[n] = Record(k)

C9_Witness ==
  /\ page = "my-books"
  /\ mb_pc = "done"
  /\ Len(buyerEbookIds) = 2
  /\ Len(purchasedEbooks) = 1
  /\ purchasedEbooks[1].active = FALSE
  /\ publishedEbooks = <<>>

\* The value a read-access function returns when its request fails.
IsDefault(fn, v) ==
  CASE fn = "getEbook" -> v = Null
    [] fn = "getEbookCount" -> v = 0
    [] fn = "hasAccess" -> v = FALSE
    [] fn = "getAuthorEbooks" -> v = <<>>
    [] fn = "getBuyerEbooks" -> v = <<>>
    [] fn = "isAuthor" -> v = FALSE

\* C3: when the request of a read-access function fails, the function does
\* not throw and returns its default: null for getEbook, 0 for getEbookCount,
\* false for hasAccess and isAuthor, the empty sequence for getAuthorEbooks
\* and getBuyerEbooks.
C3_FailureGivesDefault ==
  (page = "reads" /\ rd_pc = "done" /\ reqLog[1].status = "failed") =>
    /\ ~rd_result.threw
    /\ IsDefault(rd_fn, rd_result.value)

C3_Witness ==
  /\ page = "reads"
  /\ rd_pc = "done"
  /\ rd_fn = "hasAccess"
  /\ reqLog[1].functionName = "has-access"
  /\ reqLog[1].status = "failed"
  /\ rd_result = Return(FALSE)

\* The entry point of each write-access function.
EntryPoint(fn) ==
  CASE fn = "registerEbook" -> "register-ebook"
    [] fn = "buyEbook" -> "buy-ebook"
    [] fn = "updatePrice" -> "update-price"
    [] fn = "deactivateEbook" -> "deactivate-ebook"

FinishedOf(k) == {n \in 1..Len(wr_finished) : wr_finished[n].call = k}

CancelledOf(k) == {n \in 1..Len(wr_cancelled) : wr_cancelled[n] = k}

\* C10: every invocation of a write-access function opens one contract-call
\* request, to its own entry point; on approval the caller's onFinish runs
\* once, with the data of the wallet, and onCancel does not run; on rejection
\* the caller's onCancel runs once and onFinish does not; before the wallet
\* reports, neither runs; an omitted callback throws nothing.
C10_OneRequestOneCallback ==
  page = "writes" =>
    /\ Len(calls) = Len(wr_invoked)
    /\ ~wr_failed
    /\ \A k \in 1..Len(calls) :
         /\ calls[k].functionName = EntryPoint(wr_invoked[k])
         /\ calls[k].status = "open" => FinishedOf(k) = {} /\ CancelledOf(k) = {}
         /\ calls[k].status = "approved" =>
              /\ CancelledOf(k) = {}
              /\ Cardinality(FinishedOf(k)) = IF calls[k].onFinish = "undefined" THEN 0 ELSE 1
              /\ \A n \in FinishedOf(k) : wr_finished[n].data = calls[k].data
         /\ calls[k].status = "rejected" =>
              /\ FinishedOf(k) = {}
              /\ Cardinality(CancelledOf(k)) = IF calls[k].onCancel = "undefined" THEN 0 ELSE 1

C10_Witness ==
  /\ page = "writes"
  /\ Len(calls) = 2
  /\ wr_invoked[1] = "deactivateEbook"
  /\ calls[1].status = "approved"
  /\ calls[1].onFinish = "caller"
  /\ Len(wr_finished) = 1
  /\ wr_invoked[2] = "buyEbook"
  /\ calls[2].status = "rejected"
  /\ calls[2].onFinish = "undefined"
  /\ calls[2].onCancel = "caller"
  /\ Len(wr_cancelled) = 1

\* A text that is empty or only white space.
Blank(s) == \A k \in 1..Len(s) : s[k] = " "

\* A price text that is empty or denotes 0 or a negative number.
NotPositive(p) == p = <<>> \/ NotAboveZero(parseFloat(p))

\* A step of handleSubmit that rejects the submission: no request is opened,
\* registerEbook will not be called, the page stays in the form state and an
\* error message is shown.
Rejects ==
  /\ calls' = calls
  /\ up_pc' = "idle"
  /\ up_isLoading' = FALSE
  /\ txId' = NullTx
  /\ error' # NoError

\* C4 as stated: a submission with a blank title is rejected with the message
\* "Title is required.".
C4_BlankTitleMessage ==
  [][(HandleSubmit /\ Blank(title)) => (Rejects /\ error' = TitleError)]_vars

\* C4: a submission with a title that is empty or only white space is
\* rejected before any remote call: no request is opened, the page stays in
\* the form state and shows an error, which is "Title is required." whenever
\* the session holder reports signed in.
C4_BlankTitleRejected ==
  [][(HandleSubmit /\ Blank(title))
       => (Rejects /\ (isSignedIn => error' = TitleError))]_vars

C4_Witness ==
  /\ page = "upload"
  /\ signedIn
  /\ title = <<" ", " ">>
  /\ error = TitleError
  /\ calls = <<>>
  /\ ~up_isLoading

\* C5 as stated: a submission with a price that is empty, 0 or negative is
\* rejected with the message "Price must be greater than 0.".
C5_BadPriceMessage ==
  [][(HandleSubmit /\ NotPositive(price)) => (Rejects /\ error' = PriceError)]_vars

\* C5: a submission with a price that is empty, 0 or negative is rejected
\* before any remote call: no request is opened, the page stays in the form
\* state and shows an error, which is "Price must be greater than 0." whenever
\* the session holder reports signed in and title and description are not
\* blank.
C5_BadPriceRejected ==
  [][(HandleSubmit /\ NotPositive(price))
       => (Rejects /\ ((isSignedIn /\ ~Blank(title) /\ ~Blank(description))
                         => error' = PriceError))]_vars

C5_Witness ==
  /\ page = "upload"
  /\ signedIn
  /\ price = <<"0">>
  /\ ~Blank(title)
  /\ ~Blank(description)
  /\ error = PriceError
  /\ calls = <<>>
  /\ ~up_isLoading

\* C6: a submission while the session holder reports not signed in opens no
\* request, whatever the fields hold, and changes nothing but the error,
\* which becomes "Please connect your wallet first."; no check of a field
\* comes before the check of the wallet.
C6_WalletCheckFirst ==
  [][(HandleSubmit /\ ~isSignedIn)
       => (/\ error' = WalletError
           /\ UNCHANGED <<envVars, reqLog, calls, wrVars, up_pc, up_isLoading,
                          txId, formVars>>)]_vars

C6_Witness ==
  /\ page = "upload"
  /\ ~signedIn
  /\ error = WalletError
  /\ Blank(title)
  /\ NotPositive(price)
  /\ calls = <<>>
  /\ ~up_isLoading

\* C11: when the wallet reports the rejection of a registration the upload
\* page submitted, the page is back in the idle form state: isLoading is
\* false, no error message is set and no transaction id is set.
C11_CancelReturnsToIdle ==
  [][(WalletReject /\ page = "upload")
       => (/\ up_isLoading
           /\ ~up_isLoading'
           /\ error' = NoError
           /\ txId' = NullTx
           /\ up_pc' = "idle")]_vars

C11_Witness ==
  /\ page = "upload"
  /\ Len(calls) = 1
  /\ calls[1].functionName = "register-ebook"
  /\ calls[1].status = "rejected"
  /\ ~up_isLoading
  /\ error = NoError
  /\ txId = NullTx

\* C12: getUserAddress returns null exactly when the session holder is not
\* signed in, which it never is where there is no window; when signed in it
\* returns the mainnet address of the stored profile if the network
\* configuration is mainnet (the variable is "mainnet", or unset and so
\* defaulted to it) and the testnet address for every other configuration.
C12_AddressByNetwork ==
  [][GetUserAddressCall =>
       /\ (ut_result' = NullAddress) <=> ~(hasWindow /\ signedIn)
       /\ (hasWindow /\ signedIn) =>
            ut_result' = IF networkEnv \in {"mainnet", "unset"}
                         THEN StxAddress.mainnet ELSE StxAddress.testnet]_vars

C12_Witness ==
  /\ page = "utils"
  /\ ut_fn = "getUserAddress"
  /\ hasWindow
  /\ signedIn
  /\ networkEnv = "devnet"
  /\ ut_result = StxAddress.testnet

\* A failed request among lo..hi of the log is followed, among lo..hi, by a
\* request to the same endpoint with the same argument.
Reissued(log, lo, hi) ==
  \E j \in lo..hi : \E k \in (j + 1)..hi :
    /\ log[j].status = "failed"
    /\ log[k].functionName = log[j].functionName
    /\ log[k].arg = log[j].arg

\* The read-access functions invoked so far, counted from where the caller
\* or the composite stands.
Invocations ==
  CASE page = "reads" -> IF rd_pc = "idle" THEN 0 ELSE 1
    [] page = "index" ->
         (CASE ga_pc = "idle" -> 0
            [] ga_pc = "count" -> 1
            [] ga_pc = "ebook" -> 1 + ga_i
            [] ga_pc = "done" -> ga_i)
    [] page = "author" ->
         (CASE ba_pc = "idle" -> 0
            [] ba_pc = "ids" -> 1
            [] ba_pc = "ebook" -> 1 + ba_k
            [] ba_pc = "done" -> ba_k)
    [] page = "my-books" ->
         (CASE mb_pc = "unmounted" -> 0
            [] mb_pc = "count" -> 1
            [] mb_pc = "author" -> 2
            [] mb_pc \in {"scan", "buyer"} -> 2 + mb_i
            [] mb_pc \in {"purchased", "done"} ->
                 IF walletConnected THEN 2 + mb_i + Len(buyerEbookIds) ELSE 0)
    [] OTHER -> 0

\* C13: every invocation of a read-access function issues one read-only
\* request, also when the request fails: the log holds one request for each
\* invocation made by a caller, by getAllEbooks, by getEbooksByAuthor and by
\* loadMyBooks, and a failed request is never issued again.
C13_OneRequestNoRetry ==
  /\ Len(reqLog) = Invocations
  /\ page = "reads" /\ rd_pc # "idle" => reqLog[1].functionName = ReadEndpoint(rd_fn)
  /\ page \in {"reads", "index", "author"} => ~Reissued(reqLog, 1, Len(reqLog))
  /\ page = "my-books" =>
       LET b == BuyerIdx(reqLog)
       IN IF b = 0 THEN ~Reissued(reqLog, 1, Len(reqLog))
          ELSE ~Reissued(reqLog, 1, b) /\ ~Reissued(reqLog, b, Len(reqLog))

C13_Witness ==
  /\ page = "author"
  /\ ba_pc = "done"
  /\ Len(reqLog) = 3
  /\ reqLog[2].functionName = "get-ebook"
  /\ reqLog[2].status = "failed"
  /\ reqLog[3].status = "ok"
  /\ Len(ba_result.value) = 1

C15_HungCallKeepsLoading ==
  /\ []((page = "my-books" /\ PendingSet(reqLog) # {}) => (mb_isLoading /\ mb_pc # "done"))
  /\ [][SetActiveTab => UNCHANGED <<mb_isLoading, mb_pc, reqLog>>]_vars
  /\ [][(page = "my-books" /\ mb_isLoading /\ ~mb_isLoading')
         => (MyBooksMount \/ Cardinality(PendingSet(reqLog')) < Cardinality(PendingSet(reqLog)))]_vars

C15_Witness ==
  /\ page = "my-books"
  /\ mb_pc = "purchased"
  /\ Len(purchasedPromises) = 2
  /\ purchasedPromises[2].settled
  /\ ~purchasedPromises[1].settled
  /\ activeTab = "purchased"
  /\ mb_isLoading

\* The bits of a Number and of another one, both scaled by the same power
\* of 2, the smaller of their exponents.
Aligned(x, y) ==
  LET e0 == IF x.e < y.e THEN x.e ELSE y.e
  IN [a |-> Strip(x.m \o Zeros(x.e - e0)), b |-> Strip(y.m \o Zeros(y.e - e0)), e |-> e0]

\* a < b, for bits without leading zeros.
BitsLess(a, b) ==
  \/ Len(a) < Len(b)
  \/ /\ Len(a) = Len(b)
     /\ \E k \in 1..Len(a) : a[k] < b[k] /\ \A j \in 1..(k - 1) : a[j] = b[j]

\* y <= x, for Numbers that are not negative.
AtMost(y, x) == LET p == Aligned(x, y) IN ~BitsLess(p.a, p.b)

RECURSIVE SubFrom(_, _, _, _)
\* The k limbs of a[1..k] - b[1..k] - borrow.
SubFrom(a, b, k, borrow) ==
  IF k = 0 THEN <<>>
  ELSE LET t == a[k] - b[k] - borrow
       IN Append(SubFrom(a, b, k - 1, IF t < 0 THEN 1 ELSE 0),
                 IF t < 0 THEN t + LimbBase ELSE t)

\* The bits of a - b, for a >= b.
BitsMinus(a, b) ==
  LET la == ToLimbs(a)
      short == ToLimbs(b)
      lb == [k \in 1..(Len(la) - Len(short)) |-> 0] \o short
  IN FromLimbs(SubFrom(la, lb, Len(la), 0))

\* x - y < 1 / MicroPerStx in exact arithmetic, for Numbers 0 <= y <= x.
LessThanUnitApart(x, y) ==
  LET p == Aligned(x, y)
      d == BitsMinus(p.a, p.b)
  IN d = <<>> \/ (p.e < 0 /\ Len(MulSmall(d, MicroPerStx)) <= 0 - p.e)

\* The decimal literal a is a whole number of micro-STX.
WholeUnits(a) == a.places <= 6 \/ a.units % Pow10(a.places - 6) = 0

\* C16 as stated: for every positive amount x, the round trip
\* microStxToStx(stxToMicroStx(x)) is at most x, is less than one micro-STX
\* below x, and equals x exactly when x is a whole number of micro-STX.
C16_RoundTripWithinUnit ==
  (page = "utils" /\ ut_fn = "roundTrip") =>
    LET x == Literal(ut_arg)
        y == ut_result
    IN /\ AtMost(y, x)
       /\ LessThanUnitApart(x, y)
       /\ (y = x) <=> WholeUnits(ut_arg)

\* The text that writes m micro-STX as STX with six digits after the point.
SixDigitText(m) ==
  NatText(m \div MicroPerStx) \o <<".">> \o FixedDigits(m % MicroPerStx, 6)

\* C17: formatStx writes an amount of m micro-STX as the decimal value
\* m / 1,000,000 with six digits after the point, followed by " STX"; for
\* 1,000,000 micro-STX the text is "1.000000 STX".
C17_SixFractionalDigits ==
  (page = "utils" /\ ut_fn = "formatStx") =>
    /\ ut_result = SixDigitText(ut_arg) \o <<" ", "S", "T", "X">>
    /\ Len(ut_result) >= 12
    /\ ut_result[Len(ut_result) - 10] = "."
    /\ \A k \in (Len(ut_result) - 9)..(Len(ut_result) - 4) : ut_result[k] \in Digits
    /\ ut_arg = 1000000 =>
         ut_result = <<"1", ".", "0", "0", "0", "0", "0", "0", " ", "S", "T", "X">>

C17_Witness ==
  /\ page = "utils"
  /\ ut_fn = "formatStx"
  /\ ut_arg = 1000000
  /\ ut_result = <<"1", ".", "0", "0", "0", "0", "0", "0", " ", "S", "T", "X">>

RECURSIVE InIdOrder(_, _, _, _)
\* The records fetched for the first n ids of the list ids, in the order of
\* the list, nulls left out; the request for ids[k] is b + k in the log.
InIdOrder(log, b, ids, n) ==
  IF n = 0 THEN <<>>
  ELSE LET rest == InIdOrder(log, b, ids, n - 1)
           v == Fetched(log[b + n])
       IN IF v = Null THEN rest
          ELSE Append(rest, [id |-> ids[n], author |-> v.author, active |-> v.active])

\* C18: the purchased list of the My Books page has the order of the id list
\* getBuyerEbooks returned, with the ids whose fetch gave null removed,
\* whatever the order in which the parallel get-ebook requests complete: a
\* promise that completes before an earlier one keeps its own position.
C18_PurchasedKeepsIdOrder ==
  (page = "my-books" /\ mb_pc \in {"purchased", "done"} /\ walletConnected) =>
    LET b == BuyerIdx(reqLog)
        ids == BuyerIdsYielded(reqLog)
    IN /\ buyerEbookIds = ids
       /\ Len(purchasedPromises) = Len(ids)
       /\ \A k \in 1..Len(ids) :
            /\ purchasedPromises[k].req = b + k
            /\ purchasedPromises[k].settled <=> reqLog[b + k].status # "pending"
            /\ (purchasedPromises[k].settled /\ purchasedPromises[k].value # Null)
                 => purchasedPromises[k].value.id = ids[k]
       /\ mb_pc = "done" => purchasedEbooks = InIdOrder(reqLog, b, ids, Len(ids))

C18_Witness ==
  /\ page = "my-books"
  /\ mb_pc = "purchased"
  /\ buyerEbookIds = <<2, 1>>
  /\ ~purchasedPromises[1].settled
  /\ purchasedPromises[2].settled
  /\ purchasedPromises[2].value # Null
  /\ purchasedPromises[2].value.id = 1

C21_ExplorerChainIsNetwork ==
  (page = "upload" /\ txId # NullTx) =>
    \A k \in 1..Len(calls) :
      (calls[k].status = "approved" /\ calls[k].data = explorerUrl.txid) =>
        (explorerUrl.chain = "mainnet" <=> calls[k].network = "StacksMainnet")

\* The registrations of the upload page that are in flight: a submission
\* that passed the checks and has not reached registerEbook yet, and the
\* requests the wallet has not reported on.
InFlight ==
  {k \in 1..Len(calls) : calls[k].functionName = "register-ebook" /\ calls[k].status = "open"}
    \cup (IF up_pc = "digest" THEN {0} ELSE {})

\* C22: on the upload page at most one registration is in flight at any
\* time, and isLoading is true while one is; a submission starts only while
\* isLoading is false, and registerEbook is invoked only when no request of
\* an earlier submission is still open.
C22_OneRegistrationInFlight ==
  /\ [](page = "upload" => (Cardinality(InFlight) <= 1 /\ (InFlight # {} => up_isLoading)))
  /\ [][HandleSubmit => ~up_isLoading]_vars
  /\ [][SubmitRegister => (InFlight = {0} /\ InFlight' = {Len(calls')})]_vars

C22_Witness ==
  /\ page = "upload"
  /\ Len(calls) = 2
  /\ calls[1].status = "rejected"
  /\ calls[2].status = "open"
  /\ up_isLoading

\* Which of submitting, rejected and submitted the upload page shows.
Shown ==
  (IF up_isLoading THEN {"submitting"} ELSE {})
    \cup (IF error # NoError THEN {"rejected"} ELSE {})
    \cup (IF txId # NullTx THEN {"submitted"} ELSE {})

\* C23: after every completed handler or callback of the upload page, at
\* most one of these holds: isLoading is true, error is not null, txId is
\* not null; for every sequence of submissions, approvals, cancellations and
\* thrown errors.
C23_OneOutcomeShown ==
  page = "upload" => Cardinality(Shown) <= 1

C23_Witness ==
  /\ page = "upload"
  /\ Len(calls) = 2
  /\ calls[1].status = "rejected"
  /\ calls[2].status = "approved"
  /\ txId = calls[2].data
  /\ Shown = {"submitted"}

====
